---- MODULE Spec2Model ----
(***************************************************************************)
(* Model of pyspark_streaming_deployment/deploy_to_databricks.py: one      *)
(* deployment process (main -> deploy_application -> __remove_job ->       *)
(* __submit_job) against a remote job service.                             *)
(*                                                                         *)
(* Strings whose characters matter (application names, versions, job       *)
(* names) are sequences of one-character strings, so that the regular      *)
(* expression of __application_job_id is evaluated character by character. *)
(***************************************************************************)
EXTENDS Integers, Sequences, FiniteSets, TLC

VARIABLES
    pc,              \* position of the process in the script
    jobs,            \* remote service: the job list, in list_jobs order
    jobs0,           \* the remote job list when the process started
    env,             \* os.environ: a function from variable name to value
    tag,             \* main: the tag found on the head commit, or NoTag
    branch,          \* main: os.environ['BUILD_SOURCEBRANCHNAME']
    version,         \* deploy_application: version argument
    dtap,            \* deploy_application: dtap argument
    application_name,\* deploy_application: os.environ['BUILD_DEFINITIONNAME']
    job_config,      \* deploy_application: the constructed job config
    is_streaming,    \* deploy_application: 'schedule' in job_config.keys()
    job_id,          \* __remove_job: result of __application_job_id
    runs,            \* __kill_it_with_fire: response of list_runs
    active_run_ids,  \* __kill_it_with_fire: run ids still to cancel
    job_resp,        \* __submit_job: job id returned by create_job
    calls,           \* every remote API call made so far, in order
    error,           \* the unhandled exception that ended the process
    stdout           \* the diagnostic printed when deployment is skipped

vars == << pc, jobs, jobs0, env, tag, branch, version, dtap, application_name,
           job_config, is_streaming, job_id, runs, active_run_ids, job_resp,
           calls, error, stdout >>

----------------------------------------------------------------------------
(* Bounds of the model.                                                    *)

\* longest remote job list the process starts against
MaxJobs == 2
\* most active runs a list_runs response holds
MaxRuns == 2

----------------------------------------------------------------------------
(* Values.                                                                 *)

\* Python's None where a job id is expected (job ids are naturals)
NoneId == -1
\* Python's None where a tag is expected (a tag name is a character sequence)
NoTag == << "None" >>
\* a value not yet assigned
Unset == << >>

SNAPSHOT == << "S", "N", "A", "P", "S", "H", "O", "T" >>
Dash == << "-" >>
Digits == { "0", "1", "2", "3", "4", "5", "6", "7", "8", "9" }

JOB_CFG == "/root/job_config.json"
ROOT_LIBRARY_FOLDER == "dbfs:/mnt/sdhdev/libraries"

\* application names the build may carry in BUILD_DEFINITIONNAME
AppNames == { << "a" >>, << "a", "+" >> }
\* tag names of the repository
TagNames == { << "2", ".", "3", ".", "1" >>, << "v", "1" >> }
BranchNames == { "master", "feature/x" }
Tiers == { "PRD", "DEV" }

\* names remote jobs carry when the process starts
JobNames ==
    { << "a" >> \o Dash \o SNAPSHOT,
      << "a" >> \o Dash \o << "1", ".", "0", ".", "2" >>,
      << "a" >> \o Dash \o << "1", ".", "0" >>,
      << "a", "b" >> \o Dash \o SNAPSHOT,
      << "a", "+" >> \o Dash \o SNAPSHOT }

----------------------------------------------------------------------------
(* Sequence helpers.                                                       *)

SubSeqFrom(s, i) == SubSeq(s, i, Len(s))

Last(s) == s[Len(s)]

Max(S) == CHOOSE x \in S : \A y \in S : y <= x

----------------------------------------------------------------------------
(* __application_job_id: the regular expression                            *)
(*   ^({application_name})-(SNAPSHOT|\d+\.\d+\.\d+)$                       *)
(* The application name is interpolated into the pattern as it is, so it   *)
(* is read as a regular expression: "." stands for any character but a     *)
(* newline and "+" repeats the atom before it (the names of AppNames use   *)
(* no other metacharacter).                                                *)

\* one pattern atom against one character
AtomMatches(a, c) == IF a = "." THEN c # "\n" ELSE a = c

RECURSIVE RegexFullMatch(_, _)
\* the pattern p, read as a regular expression, matches the whole of s
RegexFullMatch(p, s) ==
    IF p = << >> THEN s = << >>
    ELSE IF Len(p) >= 2 /\ p[2] = "+"
         THEN \E k \in 1..Len(s) :
                  /\ \A i \in 1..k : AtomMatches(p[1], s[i])
                  /\ RegexFullMatch(SubSeqFrom(p, 3), SubSeqFrom(s, k + 1))
         ELSE /\ s # << >>
              /\ AtomMatches(p[1], s[1])
              /\ RegexFullMatch(Tail(p), Tail(s))

\* \d+
IsDigits(s) == s # << >> /\ \A i \in 1..Len(s) : s[i] \in Digits

\* (SNAPSHOT|\d+\.\d+\.\d+)
VersionMatches(v) ==
    \/ v = SNAPSHOT
    \/ \E i, j \in 1..Len(v) :
           /\ i < j
           /\ v[i] = "."
           /\ v[j] = "."
           /\ IsDigits(SubSeq(v, 1, i - 1))
           /\ IsDigits(SubSeq(v, i + 1, j - 1))
           /\ IsDigits(SubSeq(v, j + 1, Len(v)))

NoMatch == << >>

\* regex.search(job_name): the groups of the match, or NoMatch.  "$" also
\* matches before a newline that ends the subject.  No version holds a "-"
\* or a newline, so at most one split of the subject matches.
RegexSearch(pattern, job_name) ==
    LET end == IF job_name # << >> /\ Last(job_name) = "\n"
               THEN Len(job_name) - 1 ELSE Len(job_name)
        splits == { i \in 1..end :
                      /\ job_name[i] = "-"
                      /\ RegexFullMatch(pattern, SubSeq(job_name, 1, i - 1))
                      /\ VersionMatches(SubSeq(job_name, i + 1, end)) }
    IN  IF splits = { } THEN NoMatch
        ELSE LET i == CHOOSE i \in splits : TRUE
             IN  << SubSeq(job_name, 1, i - 1), SubSeq(job_name, i + 1, end) >>

\* has_match: match and match.groups()[0] == application_name
HasMatch(job_name, app) ==
    LET match == RegexSearch(app, job_name)
    IN  match # NoMatch /\ match[1] = app

\* next((_.job_id for _ in jobs if has_match(_.name)), None)
ApplicationJobId(app, job_list) ==
    LET hits == { i \in 1..Len(job_list) : HasMatch(job_list[i].name, app) }
    IN  IF hits = { } THEN NoneId
        ELSE job_list[CHOOSE i \in hits : \A k \in hits : i <= k].job_id

\* [JobConfig(_['settings']['name'], _['job_id']) for _ in list_jobs()['jobs']]
JobConfigs(listed) ==
    [ i \in 1..Len(listed) |->
        [ name |-> listed[i].settings.name, job_id |-> listed[i].job_id ] ]

\* "if job_id:" : None and 0 are both false
Truthy(id) == id # NoneId /\ id # 0

----------------------------------------------------------------------------
(* main: the release classifier.                                           *)

\* next((tag for tag in repo.tags if tag.commit == repo.head.commit), None);
\* str(tag) is the tag's name
HeadTag(repo) ==
    LET on == { i \in 1..Len(repo.tags) : repo.tags[i].commit = repo.head }
    IN  IF on = { } THEN NoTag
        ELSE repo.tags[CHOOSE i \in on : \A k \in on : i <= k].name

\* the branch is looked at before the tag: a tagged commit on master is a snapshot
ClassifyBranchFirst(t, b) ==
    IF b = "master"
    THEN [ deploy |-> TRUE, version |-> SNAPSHOT, dtap |-> "DEV" ]
    ELSE IF t # NoTag
         THEN [ deploy |-> TRUE, version |-> t, dtap |-> "PRD" ]
         ELSE [ deploy |-> FALSE, version |-> Unset, dtap |-> "" ]

\* main, lines 29-36: the branches on (tag, branch)
Classify(t, b) ==
    IF t # NoTag
    THEN [ deploy |-> TRUE, version |-> t, dtap |-> "PRD" ]
    ELSE IF b = "master"
         THEN [ deploy |-> TRUE, version |-> SNAPSHOT, dtap |-> "DEV" ]
         ELSE [ deploy |-> FALSE, version |-> Unset, dtap |-> "" ]

----------------------------------------------------------------------------
(* __construct_job_config: a job config is a dict, here a function from    *)
(* key to value; a path or a format string is a sequence of tokens.        *)

Lower(s) == CASE s = "PRD" -> "prd" [] s = "DEV" -> "dev" [] OTHER -> s

\* str.format(dtap=value): every "{dtap}" token is replaced
Format(str, value) ==
    [ i \in 1..Len(str) |-> IF str[i] = "{dtap}" THEN value ELSE str[i] ]

WarehouseDir == "spark.sql.warehouse.dir"

\* the lookups of __construct_job_config all succeed on this template
ConstructOk(template) ==
    /\ "new_cluster" \in DOMAIN template
    /\ "spark_conf" \in DOMAIN template["new_cluster"]
    /\ WarehouseDir \in DOMAIN template["new_cluster"]["spark_conf"]
    /\ "spark_python_task" \in DOMAIN template
    /\ "libraries" \in DOMAIN template

ConstructJobConfig(template, name, tier, egg, python_file) ==
    LET c1 == [ template EXCEPT
                  !["new_cluster"]["spark_conf"][WarehouseDir] = Format(@, Lower(tier)) ]
        c2 == ("name" :> name) @@ c1
        c3 == [ c2 EXCEPT
                  !["spark_python_task"] = ("python_file" :> python_file) @@ @ ]
    IN  [ c3 EXCEPT !["libraries"] = Append(@, ("egg" :> egg)) ]

\* f"{application_name}-{version}"
JobName(app, ver) == app \o Dash \o ver

EggPath(app, ver) ==
    << ROOT_LIBRARY_FOLDER, "/" >> \o app \o << "/" >> \o app \o Dash \o ver \o << ".egg" >>

PythonFilePath(app, ver) ==
    << ROOT_LIBRARY_FOLDER, "/" >> \o app \o << "/" >> \o app \o << "-main-" >> \o ver
        \o << ".py" >>

\* 'schedule' in job_config.keys()
IsStreaming(config) == "schedule" \in DOMAIN config

\* the environment variables deploy_application reads, for a tier
TokenVar(tier) == IF tier = "PRD" THEN "AZURE_DATABRICKS_TOKEN_PRD"
                  ELSE "AZURE_DATABRICKS_TOKEN_DEV"

HostVar(tier) == IF tier = "PRD" THEN "AZURE_DATABRICKS_HOST_PRD"
                 ELSE "AZURE_DATABRICKS_HOST_DEV"

----------------------------------------------------------------------------
(* Inputs of a process: its environment, the repository, the template file *)
(* and the remote job list.                                                *)

EnvVars == { "BUILD_SOURCEBRANCHNAME", "BUILD_DEFINITIONNAME",
             "AZURE_DATABRICKS_TOKEN_PRD", "AZURE_DATABRICKS_HOST_PRD",
             "AZURE_DATABRICKS_TOKEN_DEV", "AZURE_DATABRICKS_HOST_DEV" }

EnvValue(v, b, a) ==
    CASE v = "BUILD_SOURCEBRANCHNAME" -> b
      [] v = "BUILD_DEFINITIONNAME" -> a
      [] OTHER -> v

\* environments with every variable set, or with exactly one missing
Envs ==
    { [ v \in EnvVars \ missing |-> EnvValue(v, b, a) ] :
        b \in BranchNames, a \in AppNames,
        missing \in { { } } \cup { { v } : v \in EnvVars } }

Commits == { "c1", "c2" }

TagRefs == [ name : TagNames, commit : Commits ]

\* repositories: up to two tags, each on some commit, and a head commit
Repos ==
    { [ tags |-> ts, head |-> h ] :
        ts \in { << >> } \cup { << t >> : t \in TagRefs }
               \cup { << t, u >> : t, u \in TagRefs },
        h \in Commits }

TemplateBatch ==
    ("new_cluster" :> ("spark_conf" :> (WarehouseDir :> << "/mnt/", "{dtap}" >>)))
    @@ ("spark_python_task" :> ("parameters" :> << >>))
    @@ ("libraries" :> << >>)

TemplateStreaming == ("schedule" :> "cron") @@ TemplateBatch

\* a template without the new_cluster field
TemplateMalformed ==
    ("spark_python_task" :> ("parameters" :> << >>)) @@ ("libraries" :> << >>)

\* the local storage: the template file is absent, or holds one of the templates
FileSystems ==
    { << >> } \cup
    { (JOB_CFG :> t) : t \in { TemplateBatch, TemplateStreaming, TemplateMalformed } }

\* __read_job_config: json.load of the file
ReadJobConfig(fs, fn) == fs[fn]

\* remote job lists a process may start against: up to MaxJobs jobs, each
\* with a name of JobNames, and consecutive identifiers starting at 0 or 1
InitialJobLists ==
    UNION { { [ i \in 1..n |-> [ job_id |-> base + i - 1,
                                  settings |-> [ name |-> names[i] ] ] ] :
                names \in [ 1..n -> JobNames ], base \in { 0, 1 } } :
            n \in 0..MaxJobs }

\* list_runs responses: without a "runs" key, or with up to MaxRuns runs
RunsResponses ==
    { ("has_more" :> FALSE) } \cup
    { ("runs" :> [ i \in 1..n |-> [ run_id |-> 100 + i ] ]) @@ ("has_more" :> more) :
        n \in 0..MaxRuns, more \in BOOLEAN }

----------------------------------------------------------------------------
(* Remote calls.                                                           *)

Call(op, id, params, ok) == [ op |-> op, id |-> id, params |-> params, ok |-> ok ]

\* list_runs(job_id, active_only=True, completed_only=None, offset=None, limit=None)
ListRunsParams == << "active_only=True", "completed_only=None", "offset=None", "limit=None" >>

\* run_now(job_id, None, None, None, None)
RunNowParams == << "None", "None", "None", "None" >>

\* the exception of a remote call is swallowed: the process goes on
ContinueAfterCall(ok, next) == next

\* an exception of a remote call is not caught: the process ends
AfterCall(ok, next) == IF ok THEN next ELSE "aborted"

\* the identifier the remote service gives a new job: never one it has used
FreshJobId(known) == Max({ j.job_id : j \in known } \cup { 0 }) + 1

Range(s) == { s[i] : i \in 1..Len(s) }

\* the remote list without the job of this identifier
WithoutJob(list, id) == SelectSeq(list, LAMBDA j : j.job_id # id)

----------------------------------------------------------------------------
(* The process.                                                            *)

Init ==
    /\ pc = "main"
    /\ jobs \in InitialJobLists
    /\ jobs0 = jobs
    /\ env \in Envs
    /\ tag = NoTag
    /\ branch = ""
    /\ version = Unset
    /\ dtap = ""
    /\ application_name = Unset
    /\ job_config = << >>
    /\ is_streaming = FALSE
    /\ job_id = NoneId
    /\ runs = << >>
    /\ active_run_ids = << >>
    /\ job_resp = NoneId
    /\ calls = << >>
    /\ error = << >>
    /\ stdout = << >>

\* main, lines 24-36
Main ==
    /\ pc = "main"
    /\ \E repo \in Repos :
        /\ tag' = HeadTag(repo)
        /\ IF "BUILD_SOURCEBRANCHNAME" \notin DOMAIN env
           THEN /\ pc' = "aborted"
                /\ error' = << "KeyError", "BUILD_SOURCEBRANCHNAME" >>
                /\ UNCHANGED << branch, version, dtap, stdout >>
           ELSE /\ branch' = env["BUILD_SOURCEBRANCHNAME"]
                /\ LET c == Classify(tag', branch')
                   IN  /\ version' = c.version
                       /\ dtap' = c.dtap
                       /\ pc' = IF c.deploy THEN "deploy" ELSE "done"
                       /\ stdout' = IF c.deploy THEN stdout
                                    ELSE << "Not deploying", branch' >>
                /\ UNCHANGED error
    /\ UNCHANGED << jobs, jobs0, env, application_name, job_config, is_streaming,
                    job_id, runs, active_run_ids, job_resp, calls >>

\* os.environ.get in place of os.environ[]: no variable is ever missed
NoMissingEnv(e, tier) == ""

\* the first of the credentials of the tier that os.environ lacks, "" if none
MissingCredential(e, tier) ==
    IF TokenVar(tier) \notin DOMAIN e THEN TokenVar(tier)
    ELSE IF HostVar(tier) \notin DOMAIN e THEN HostVar(tier)
    ELSE ""

\* deploy_application, lines 47-62
DeployApplication ==
    /\ pc = "deploy"
    /\ \E fs \in FileSystems :
        IF "BUILD_DEFINITIONNAME" \notin DOMAIN env
        THEN /\ pc' = "aborted"
             /\ error' = << "KeyError", "BUILD_DEFINITIONNAME" >>
             /\ UNCHANGED << application_name, job_config, is_streaming >>
        ELSE /\ application_name' = env["BUILD_DEFINITIONNAME"]
             /\ IF JOB_CFG \notin DOMAIN fs
                THEN /\ pc' = "aborted"
                     /\ error' = << "FileNotFoundError", JOB_CFG >>
                     /\ UNCHANGED << job_config, is_streaming >>
                ELSE IF ~ ConstructOk(ReadJobConfig(fs, JOB_CFG))
                THEN /\ pc' = "aborted"
                     /\ error' = << "KeyError", "job_config" >>
                     /\ UNCHANGED << job_config, is_streaming >>
                ELSE /\ job_config' =
                            ConstructJobConfig(ReadJobConfig(fs, JOB_CFG),
                                               JobName(application_name', version),
                                               dtap,
                                               EggPath(application_name', version),
                                               PythonFilePath(application_name', version))
                     /\ IF MissingCredential(env, dtap) # ""
                        THEN /\ pc' = "aborted"
                             /\ error' = << "KeyError", MissingCredential(env, dtap) >>
                             /\ UNCHANGED is_streaming
                        ELSE /\ is_streaming' = IsStreaming(job_config')
                             /\ pc' = "remove"
                             /\ UNCHANGED error
    /\ UNCHANGED << jobs, jobs0, env, tag, branch, version, dtap, job_id, runs,
                    active_run_ids, job_resp, calls, stdout >>

\* "if job_id:" dropped: the kill and the delete run whatever the locator found
RemoveNextUnguarded(id, streaming) == IF streaming THEN "kill" ELSE "delete"

\* __remove_job, lines 113-116: where the remover goes after the locator
RemoveNext(id, streaming) ==
    IF Truthy(id) THEN (IF streaming THEN "kill" ELSE "delete") ELSE "submit"

\* __remove_job, lines 106-113: list_jobs and __application_job_id
RemoveJob ==
    /\ pc = "remove"
    /\ \E ok \in BOOLEAN :
        /\ calls' = Append(calls, Call("list_jobs", NoneId, << >>, ok))
        /\ job_id' = IF ok THEN ApplicationJobId(application_name, JobConfigs(jobs))
                     ELSE job_id
        /\ error' = IF ok THEN error ELSE << "ApiError", "list_jobs" >>
        /\ pc' = AfterCall(ok, RemoveNext(job_id', is_streaming))
    /\ UNCHANGED << jobs, jobs0, env, tag, branch, version, dtap, application_name,
                    job_config, is_streaming, runs, active_run_ids, job_resp, stdout >>

\* __kill_it_with_fire, lines 130-138: list_runs and the run ids of the response
KillItWithFire ==
    /\ pc = "kill"
    /\ \E ok \in BOOLEAN, resp \in RunsResponses :
        /\ calls' = Append(calls, Call("list_runs", job_id, ListRunsParams, ok))
        /\ runs' = IF ok THEN resp ELSE runs
        /\ active_run_ids' =
               IF ok /\ "runs" \in DOMAIN resp
               THEN [ i \in 1..Len(resp["runs"]) |-> resp["runs"][i].run_id ]
               ELSE << >>
        /\ error' = IF ok THEN error ELSE << "ApiError", "list_runs" >>
        /\ pc' = AfterCall(ok, IF active_run_ids' = << >> THEN "delete" ELSE "cancel")
    /\ UNCHANGED << jobs, jobs0, env, tag, branch, version, dtap, application_name,
                    job_config, is_streaming, job_id, job_resp, stdout >>

\* __kill_it_with_fire, line 139: one cancel_run of the list comprehension
CancelRun ==
    /\ pc = "cancel"
    /\ active_run_ids # << >>
    /\ \E ok \in BOOLEAN :
        /\ calls' = Append(calls, Call("cancel_run", Head(active_run_ids), << >>, ok))
        /\ active_run_ids' = Tail(active_run_ids)
        /\ error' = IF ok THEN error ELSE << "ApiError", "cancel_run" >>
        /\ pc' = AfterCall(ok, IF active_run_ids' = << >> THEN "delete" ELSE "cancel")
    /\ UNCHANGED << jobs, jobs0, env, tag, branch, version, dtap, application_name,
                    job_config, is_streaming, job_id, runs, job_resp, stdout >>

\* __remove_job, line 116: delete_job
DeleteJob ==
    /\ pc = "delete"
    /\ \E ok \in BOOLEAN :
        /\ calls' = Append(calls, Call("delete_job", job_id, << >>, ok))
        /\ jobs' = IF ok THEN WithoutJob(jobs, job_id) ELSE jobs
        /\ error' = IF ok THEN error ELSE << "ApiError", "delete_job" >>
        /\ pc' = AfterCall(ok, "submit")
    /\ UNCHANGED << jobs0, env, tag, branch, version, dtap, application_name,
                    job_config, is_streaming, job_id, runs, active_run_ids, job_resp,
                    stdout >>

\* run_now whatever the job is
SubmitNextAlways(streaming) == "run_now"

\* __submit_job, line 146: "if is_streaming"
SubmitNext(streaming) == IF streaming THEN "run_now" ELSE "done"

\* __submit_job, lines 143-146: create_job
SubmitJob ==
    /\ pc = "submit"
    /\ \E ok \in BOOLEAN :
        /\ calls' = Append(calls, Call("create_job", NoneId, << >>, ok))
        /\ job_resp' = IF ok THEN FreshJobId(Range(jobs0)) ELSE job_resp
        /\ jobs' = IF ok
                   THEN Append(jobs, [ job_id |-> job_resp',
                                       settings |-> [ name |-> job_config["name"] ] ])
                   ELSE jobs
        /\ error' = IF ok THEN error ELSE << "ApiError", "create_job" >>
        /\ pc' = AfterCall(ok, SubmitNext(is_streaming))
    /\ UNCHANGED << jobs0, env, tag, branch, version, dtap, application_name,
                    job_config, is_streaming, job_id, runs, active_run_ids, stdout >>

\* __submit_job, line 147: run_now
RunNow ==
    /\ pc = "run_now"
    /\ \E ok \in BOOLEAN :
        /\ calls' = Append(calls, Call("run_now", job_resp, RunNowParams, ok))
        /\ error' = IF ok THEN error ELSE << "ApiError", "run_now" >>
        /\ pc' = AfterCall(ok, "done")
    /\ UNCHANGED << jobs, jobs0, env, tag, branch, version, dtap, application_name,
                    job_config, is_streaming, job_id, runs, active_run_ids, job_resp,
                    stdout >>

Next ==
    \/ Main
    \/ DeployApplication
    \/ RemoveJob
    \/ KillItWithFire
    \/ CancelRun
    \/ DeleteJob
    \/ SubmitJob
    \/ RunNow

Spec == Init /\ [][Next]_vars

----------------------------------------------------------------------------
(* Vocabulary of the properties.                                           *)

\* the name is {app}-{version}, version SNAPSHOT or digits.digits.digits
NamedAppVersion(name, app) ==
    \E i \in 1..Len(name) :
        /\ name[i] = "-"
        /\ SubSeq(name, 1, i - 1) = app
        /\ VersionMatches(SubSeq(name, i + 1, Len(name)))

\* the name is {app}{X}-{version} for a nonempty X
NamedLongerAppVersion(name, app) ==
    \E i \in 1..Len(name) :
        /\ name[i] = "-"
        /\ i - 1 > Len(app)
        /\ SubSeq(name, 1, Len(app)) = app
        /\ VersionMatches(SubSeq(name, i + 1, Len(name)))

\* positions of the jobs of a list that are named for the application
NamedJobs(list, app) ==
    { i \in 1..Len(list) : NamedAppVersion(list[i].settings.name, app) }

CallsOf(ops) == SelectSeq(calls, LAMBDA c : c.op \in ops)

RemoverOps == { "list_jobs", "list_runs", "cancel_run", "delete_job" }

\* the process skipped the deployment
Skipped == pc = "done" /\ calls = << >>

\* the deployment ran to its end without an error
Deployed == pc = "done" /\ calls # << >>

\* list_jobs has answered, so the locator has run
Located == calls # << >> /\ calls[1].ok

\* the remover has returned
RemoverDone ==
    \/ pc \in { "submit", "run_now" }
    \/ Deployed
    \/ pc = "aborted" /\ error # << >> /\ error[2] \in { "create_job", "run_now" }

\* [cancel_run(r) for r in ids]
CancelCalls(ids) == [ i \in 1..Len(ids) |-> Call("cancel_run", ids[i], << >>, TRUE) ]

\* the run ids of a list_runs response
ResponseRunIds(resp) ==
    IF "runs" \in DOMAIN resp
    THEN [ i \in 1..Len(resp["runs"]) |-> resp["runs"][i].run_id ]
    ELSE << >>

----------------------------------------------------------------------------
(* C1: after a successful deployment the remote service holds at most one  *)
(* job named {application}-(SNAPSHOT|d+.d+.d+), whatever the job list was  *)
(* when the process started.                                               *)
C1_AtMostOneJobAfterDeploy ==
    Deployed => Cardinality(NamedJobs(jobs, application_name)) <= 1

(* C2: the locator returns the id of a listed job named A-V when there is  *)
(* one, never the id of a job named AX-V, and no id when no listed job is  *)
(* named A-V.                                                              *)
C2_LocatorSelectsNamedJob ==
    Located =>
        LET named == NamedJobs(jobs0, application_name)
        IN  /\ named # { } => \E i \in named : job_id = jobs0[i].job_id
            /\ named = { } => job_id = NoneId
            /\ \A i \in 1..Len(jobs0) :
                   NamedLongerAppVersion(jobs0[i].settings.name, application_name)
                       => job_id # jobs0[i].job_id

(* C3: a streaming remover that located a job makes one list_runs call for *)
(* that job with active_only set, then one cancel_run per run id of the    *)
(* response, and only then one delete_job of that job.                     *)
C3_StreamingRemoverSequence ==
    LET found == ApplicationJobId(application_name, JobConfigs(jobs0))
    IN  (RemoverDone /\ is_streaming /\ found # NoneId) =>
            CallsOf(RemoverOps) =
                << Call("list_jobs", NoneId, << >>, TRUE),
                   Call("list_runs", found, ListRunsParams, TRUE) >>
                \o CancelCalls(ResponseRunIds(runs))
                \o << Call("delete_job", found, << >>, TRUE) >>

(* C4: after a successful deployment the created job has been triggered by *)
(* exactly one run_now or carries a schedule in its config.                *)
C4_TriggeredOrScheduled ==
    Deployed =>
        \/ "schedule" \in DOMAIN job_config /\ Len(CallsOf({ "run_now" })) = 0
        \/ Len(CallsOf({ "run_now" })) = 1

(* C10: a batch remover that located a job, whatever its identifier,       *)
(* calls delete_job once on it and makes no list_runs or cancel_run call.  *)
C10_BatchRemoverDeletesOnly ==
    LET found == ApplicationJobId(application_name, JobConfigs(jobs0))
    IN  (RemoverDone /\ ~ is_streaming /\ found # NoneId) =>
            CallsOf(RemoverOps) =
                << Call("list_jobs", NoneId, << >>, TRUE),
                   Call("delete_job", found, << >>, TRUE) >>

(* C5: create_job is called at most once and only after every call of the  *)
(* remover; run_now is called only by a streaming deployment, once, right  *)
(* after the successful create_job, on the id that create_job returned     *)
(* (never an id of the old list) and with no parameter overrides; a        *)
(* deployment that ran to its end called create_job exactly once and       *)
(* run_now exactly once if streaming, never if batch.                      *)
C5_CreateOnceThenRunNow ==
    /\ Len(CallsOf({ "create_job" })) <= 1
    /\ Len(CallsOf({ "run_now" })) <= 1
    /\ \A i, k \in 1..Len(calls) :
           (calls[i].op = "create_job" /\ calls[k].op \in RemoverOps) => k < i
    /\ \A i \in 1..Len(calls) :
           calls[i].op = "run_now" =>
               /\ is_streaming
               /\ i > 1
               /\ calls[i - 1].op = "create_job"
               /\ calls[i - 1].ok
               /\ calls[i].id = job_resp
               /\ calls[i].id \in { j.job_id : j \in Range(jobs) }
               /\ calls[i].id \notin { j.job_id : j \in Range(jobs0) }
               /\ calls[i].params = RunNowParams
    /\ Deployed =>
           /\ Len(CallsOf({ "create_job" })) = 1
           /\ Len(CallsOf({ "run_now" })) = (IF is_streaming THEN 1 ELSE 0)

\* a streaming deployment that deleted an old job and triggered the new one
C5_Witness ==
    /\ Deployed
    /\ is_streaming
    /\ Len(CallsOf({ "delete_job" })) = 1
    /\ Last(calls).op = "run_now"

(* C6: when no listed job is named for the application, the remover makes  *)
(* no delete_job, list_runs or cancel_run call and raises no error, and    *)
(* the next call of the process is create_job, streaming or batch.         *)
C6_NothingToRemove ==
    (Located /\ NamedJobs(jobs0, application_name) = { }) =>
        /\ CallsOf({ "delete_job", "list_runs", "cancel_run" }) = << >>
        /\ pc \in { "submit", "run_now", "done", "aborted" }
        /\ pc = "aborted" => error[2] \in { "create_job", "run_now" }
        /\ Len(calls) >= 2 => calls[2].op = "create_job"
        /\ pc # "submit" => Len(calls) >= 2

\* a streaming deployment against a list whose jobs belong to other applications
C6_Witness ==
    /\ Deployed
    /\ is_streaming
    /\ jobs0 # << >>
    /\ NamedJobs(jobs0, application_name) = { }
    /\ Len(jobs) = Len(jobs0) + 1

(* C7: the classifier's outcome is decided by the tag on the head commit   *)
(* and the branch: a tag deploys that tag on PRD whatever the branch;      *)
(* without a tag, master deploys SNAPSHOT on DEV; otherwise the process    *)
(* ends normally with a diagnostic, no config, no remote call, no error.   *)
C7_Classifier ==
    (pc # "main" /\ "BUILD_SOURCEBRANCHNAME" \in DOMAIN env) =>
        /\ branch = env["BUILD_SOURCEBRANCHNAME"]
        /\ tag # NoTag =>
               version = tag /\ dtap = "PRD" /\ ~ Skipped
        /\ (tag = NoTag /\ branch = "master") =>
               version = SNAPSHOT /\ dtap = "DEV" /\ ~ Skipped
        /\ (tag = NoTag /\ branch # "master") =>
               /\ pc = "done"
               /\ stdout = << "Not deploying", branch >>
               /\ job_config = << >>
               /\ calls = << >>
               /\ error = << >>
               /\ jobs = jobs0

\* a tagged commit on master deployed to PRD under the tag's name
C7_Witness ==
    /\ Deployed
    /\ tag # NoTag
    /\ branch = "master"
    /\ dtap = "PRD"
    /\ job_config["name"] = JobName(application_name, tag)

(* C8: a failed remote call ends the process: it is the last call made (no *)
(* later call, no retry), and the remote list keeps what the calls before  *)
(* it did (no rollback); when the only job named for the application was   *)
(* deleted and create_job failed, no job named for it is left.             *)
C8_FailureAborts ==
    LET deleted == \E i \in 1..Len(calls) : calls[i].op = "delete_job" /\ calls[i].ok
        created == \E i \in 1..Len(calls) : calls[i].op = "create_job" /\ calls[i].ok
        kept == IF deleted THEN WithoutJob(jobs0, job_id) ELSE jobs0
    IN  /\ \A i \in 1..Len(calls) :
               ~ calls[i].ok =>
                   /\ i = Len(calls)
                   /\ pc = "aborted"
                   /\ error = << "ApiError", calls[i].op >>
        /\ ~ created => jobs = kept
        /\ created => (Len(jobs) = Len(kept) + 1 /\ SubSeq(jobs, 1, Len(kept)) = kept)
        /\ ( /\ calls # << >>
             /\ Last(calls).op = "create_job"
             /\ ~ Last(calls).ok
             /\ deleted
             /\ Cardinality(NamedJobs(jobs0, application_name)) = 1 )
           => NamedJobs(jobs, application_name) = { }

\* the old job is deleted, create_job has failed, and the application has no job
C8_Witness ==
    /\ pc = "aborted"
    /\ error = << "ApiError", "create_job" >>
    /\ Len(CallsOf({ "delete_job" })) = 1
    /\ Cardinality(NamedJobs(jobs0, application_name)) = 1
    /\ NamedJobs(jobs, application_name) = { }

(* C9: when the environment lacks a variable the process needs (the branch *)
(* name; for a deployment also the definition name and the token and host  *)
(* of the tier), the process ends with an error before any remote call,    *)
(* and the remote job list is as it was.                                   *)
C9_MissingEnvAborts ==
    LET noBranch == "BUILD_SOURCEBRANCHNAME" \notin DOMAIN env
        noDeployVar ==
            /\ dtap \in Tiers
            /\ \/ "BUILD_DEFINITIONNAME" \notin DOMAIN env
               \/ ("AZURE_DATABRICKS_TOKEN_" \o dtap) \notin DOMAIN env
               \/ ("AZURE_DATABRICKS_HOST_" \o dtap) \notin DOMAIN env
    IN  ((pc # "main" /\ noBranch) \/ (pc \notin { "main", "deploy" } /\ noDeployVar)) =>
            /\ pc = "aborted"
            /\ error # << >>
            /\ calls = << >>
            /\ jobs = jobs0

\* the host of the tier is missing: the process has ended on the KeyError
C9_Witness ==
    /\ pc = "aborted"
    /\ error = << "KeyError", "AZURE_DATABRICKS_HOST_DEV" >>
    /\ job_config # << >>
    /\ calls = << >>

====
